---- MODULE Spec2Model ----
(***************************************************************************)
(* Model of src/app1.py: a Flask account backend that keeps every user     *)
(* record in one JSON file (users.json).  Each handler reads the whole     *)
(* document, mutates it in memory and writes the whole document back.      *)
(*                                                                         *)
(* A Python str is modelled as the sequence of its characters, so that     *)
(* `'@' in email` and `len(password)` are computed and not looked up.      *)
(* Python's None is the one-element sequence <<"None">>, which is no str   *)
(* (its element is not a single character).  A JSON object (dict) is a     *)
(* function from keys to values; a key that the request omits is simply    *)
(* not in its DOMAIN.                                                      *)
(***************************************************************************)
EXTENDS Naturals, Sequences, FiniteSets, TLC

VARIABLES db_file,   \* users.json: [exists, content]
          last,      \* the last completed request: [op, data, resp, pre]
          prev,      \* the request before it, when that one changed a list
          steps,     \* number of requests handled so far (bounded by MaxSteps)
          threads,   \* per server thread: the request it is in the middle of
          acks,      \* the requests that saved and were answered with success
          expected,  \* the document, had the answered requests run one by one
          interleaved \* some request loaded while another was between load and save

vars == <<db_file, last, prev, steps, threads, acks, expected, interleaved>>

\* ------------------------------------------------------------------ bounds
MaxUsers == 2
MaxSteps == 3

\* --------------------------------------------------------- Python values
None == <<"None">>
EmptyDict == [k \in {} |-> None]

\* bool(x) for x a str or None
Truthy(x) == x # None /\ x # <<>>

\* all([...]) over strs and Nones
All(xs) == \A i \in 1..Len(xs) : Truthy(xs[i])

\* dict.get(key, default)
Get(d, key, default) == IF key \in DOMAIN d THEN d[key] ELSE default

\* `c in s` for a character c and a str s;  `x in lst` for a list
In(x, s) == \E i \in 1..Len(s) : s[i] = x

\* list.remove(x): drops the first occurrence
RECURSIVE Remove(_, _)
Remove(lst, x) ==
    IF lst = <<>> THEN <<>>
    ELSE IF Head(lst) = x THEN Tail(lst)
    ELSE <<Head(lst)>> \o Remove(Tail(lst), x)

\* mutant: the assignment rebuilds the dict around the one key
Put_only(d, key, value) == [k \in {key} |-> value]

\* d[key] = value on a dict
Put(d, key, value) == [k \in DOMAIN d \cup {key} |-> IF k = key THEN value ELSE d[k]]

\* werkzeug.security: a salted one-way hash and its verification
generate_password_hash(password, salt) ==
    [method |-> "scrypt", salt |-> salt, digest |-> <<salt, password>>]

\* mutant: the verification looks at the salt alone
check_password_hash_salt_only(pwhash, password) ==
    pwhash.digest[1] = pwhash.salt

check_password_hash(pwhash, password) ==
    pwhash.digest = <<pwhash.salt, password>>

\* jsonify(body), status
Response(status, body) == [status |-> status, body |-> body]

\* ----------------------------------------------------------- Record store
\* users.json as init_db leaves it
init_db == [exists |-> TRUE, content |-> [users |-> EmptyDict]]

\* users.json before init_db has ever run
NoFile == [exists |-> FALSE, content |-> EmptyDict]

\* mutant: the read always ends in the except branch
read_users_data_fail_open(file) == [users |-> EmptyDict]

read_users_data(file) ==
    IF ~file.exists THEN [users |-> EmptyDict]
    ELSE IF "users" \notin DOMAIN file.content
         THEN Put(file.content, "users", EmptyDict)
         ELSE file.content

\* json.dump and a later json.load give back the same document: its keys are
\* strs and its values strs, lists of strs and dicts of these.  The write is taken
\* to succeed (an IOError would be logged and swallowed).
write_users_data(data) == [exists |-> TRUE, content |-> data]

\* what a handler hands back: the response and, when it saved, the document
Return(resp) == [resp |-> resp, write |-> FALSE, data |-> [users |-> EmptyDict]]
Save(resp, users_data) == [resp |-> resp, write |-> TRUE, data |-> users_data]

\* ------------------------------------------------------------- constants
MinPasswordLen == 6

\* -------------------------------------------------------- Account service
\* mutant: the scan is skipped
email_registered_never(users, email) == FALSE

\* mutant: the email is looked up among the keys (`email in users`)
email_registered_by_key(users, email) == email \in DOMAIN users

\* the linear scan of register: some record already carries this email
email_registered(users, email) == \E uid \in DOMAIN users : users[uid].email = email

\* the format check of register (it rejects when this is false)
valid_email(email) == In("@", email) /\ In(".", email)

\* mutant: the bound is off by one
valid_password_off_by_one(password) == ~(Len(password) < MinPasswordLen - 1)

\* the length check of register (it rejects when this is false)
valid_password(password) == ~(Len(password) < MinPasswordLen)

\* mutant: the membership test is skipped
already_purchased_never(purchases, movie_id) == FALSE

\* the membership test of add_purchase
already_purchased(purchases, movie_id) == In(movie_id, purchases)

\* mutant: the movie is appended without the membership test
toggled_always_append(lst, movie_id) == Append(lst, movie_id)

\* the toggle of toggle_favorite / toggle_watchlist: remove if present, else append
toggled(lst, movie_id) ==
    IF In(movie_id, lst) THEN Remove(lst, movie_id) ELSE Append(lst, movie_id)

\* POST /register.  user_id is the value of str(uuid.uuid4()), salt the random
\* salt drawn by generate_password_hash.
register(data, users_data, user_id, salt) ==
    LET email    == Get(data, "email", None)
        username == Get(data, "username", None)
        password == Get(data, "password", None)
        img_url  == Get(data, "img_url", <<>>)
        users    == Get(users_data, "users", EmptyDict)
    IN  IF ~All(<<email, username, password>>)
        THEN Return(Response(400, [error |-> "Missing required fields"]))
        ELSE IF email_registered(users, email)
        THEN Return(Response(400, [error |-> "Email already registered"]))
        ELSE IF ~valid_email(email)
        THEN Return(Response(400, [error |-> "Invalid email format"]))
        ELSE IF ~valid_password(password)
        THEN Return(Response(400, [error |-> "Password must be at least 6 characters"]))
        ELSE Save(Response(201, [message  |-> "Registration successful",
                                 username |-> username,
                                 user_id  |-> user_id]),
                  [users_data EXCEPT !.users =
                      Put(users, user_id,
                          [id        |-> user_id,
                           email     |-> email,
                           username  |-> username,
                           img_url   |-> img_url,
                           password  |-> generate_password_hash(password, salt),
                           favorites |-> <<>>,
                           watchlist |-> <<>>,
                           purchases |-> <<>>])])

\* POST /login
login(data, users_data) ==
    LET email    == Get(data, "email", None)
        password == Get(data, "password", None)
        users    == Get(users_data, "users", EmptyDict)
        found    == {uid \in DOMAIN users : users[uid].email = email}
    IN  IF ~All(<<email, password>>)
        THEN Return(Response(400, [error |-> "Missing required fields"]))
        ELSE IF found = {}
        THEN Return(Response(401, [error |-> "Invalid email or password"]))
        ELSE LET user_id == CHOOSE uid \in found : TRUE
                 user    == users[user_id]
             IN  IF ~check_password_hash(user.password, password)
                 THEN Return(Response(401, [error |-> "Invalid email or password"]))
                 ELSE Return(Response(200, [message  |-> "Login successful",
                                            username |-> user.username,
                                            user_id  |-> user_id]))

\* POST /logout
logout == Return(Response(200, [message |-> "Logged out successfully"]))

\* mutant: an unresolved user_id is answered 404, as the mutating handlers do
account_not_found(args, users_data) ==
    LET user_id == Get(args, "user_id", None)
        users   == Get(users_data, "users", EmptyDict)
        guest   == [username |-> <<"G", "u", "e", "s", "t">>, img_url |-> <<>>,
                    isLoggedIn |-> FALSE,
                    favorites |-> <<>>, watchlist |-> <<>>, purchases |-> <<>>]
    IN  IF ~Truthy(user_id) THEN Return(Response(200, guest))
        ELSE IF user_id \notin DOMAIN users
        THEN Return(Response(404, [error |-> "User not found. Please log in again."]))
        ELSE LET user == users[user_id]
             IN  Return(Response(200, [username   |-> user.username,
                                       img_url    |-> user.img_url,
                                       isLoggedIn |-> TRUE,
                                       favorites  |-> Get(user, "favorites", <<>>),
                                       watchlist  |-> Get(user, "watchlist", <<>>),
                                       purchases  |-> Get(user, "purchases", <<>>)]))

\* GET /account?user_id=
account(args, users_data) ==
    LET user_id == Get(args, "user_id", None)
        users   == Get(users_data, "users", EmptyDict)
        guest   == [username |-> <<"G", "u", "e", "s", "t">>, img_url |-> <<>>,
                    isLoggedIn |-> FALSE,
                    favorites |-> <<>>, watchlist |-> <<>>, purchases |-> <<>>]
    IN  IF ~Truthy(user_id) THEN Return(Response(200, guest))
        ELSE IF user_id \notin DOMAIN users THEN Return(Response(200, guest))
        ELSE LET user == users[user_id]
             IN  Return(Response(200, [username   |-> user.username,
                                       img_url    |-> user.img_url,
                                       isLoggedIn |-> TRUE,
                                       favorites  |-> Get(user, "favorites", <<>>),
                                       watchlist  |-> Get(user, "watchlist", <<>>),
                                       purchases  |-> Get(user, "purchases", <<>>)]))

\* POST /favorites
toggle_favorite(data, users_data) ==
    LET movie_id == Get(data, "movie_id", None)
        user_id  == Get(data, "user_id", None)
        users    == Get(users_data, "users", EmptyDict)
    IN  IF ~Truthy(movie_id) THEN Return(Response(400, [error |-> "Missing movie_id"]))
        ELSE IF ~Truthy(user_id) THEN Return(Response(400, [error |-> "Missing user_id"]))
        ELSE IF user_id \notin DOMAIN users
        THEN Return(Response(404, [error |-> "User not found. Please log in again."]))
        ELSE LET user      == users[user_id]
                 favorites == Get(user, "favorites", <<>>)
                 removed   == In(movie_id, favorites)
                 updated   == toggled(favorites, movie_id)
             IN  Save(Response(200, [message |-> IF removed
                                                 THEN "Movie removed to favorites"
                                                 ELSE "Movie added to favorites"]),
                      [users_data EXCEPT !.users =
                          Put(users, user_id, [user EXCEPT !.favorites = updated])])

\* POST /watchlist
toggle_watchlist(data, users_data) ==
    LET movie_id == Get(data, "movie_id", None)
        user_id  == Get(data, "user_id", None)
        users    == Get(users_data, "users", EmptyDict)
    IN  IF ~Truthy(movie_id) THEN Return(Response(400, [error |-> "Missing movie_id"]))
        ELSE IF ~Truthy(user_id) THEN Return(Response(400, [error |-> "Missing user_id"]))
        ELSE IF user_id \notin DOMAIN users
        THEN Return(Response(404, [error |-> "User not found. Please log in again."]))
        ELSE LET user      == users[user_id]
                 watchlist == Get(user, "watchlist", <<>>)
                 removed   == In(movie_id, watchlist)
                 updated   == toggled(watchlist, movie_id)
             IN  Save(Response(200, [message |-> IF removed
                                                 THEN "Movie removed to watchlist"
                                                 ELSE "Movie added to watchlist"]),
                      [users_data EXCEPT !.users =
                          Put(users, user_id, [user EXCEPT !.watchlist = updated])])

\* POST /purchases
add_purchase(data, users_data) ==
    LET movie_id == Get(data, "movie_id", None)
        user_id  == Get(data, "user_id", None)
        users    == Get(users_data, "users", EmptyDict)
    IN  IF ~Truthy(movie_id) THEN Return(Response(400, [error |-> "Missing movie_id"]))
        ELSE IF ~Truthy(user_id) THEN Return(Response(400, [error |-> "Missing user_id"]))
        ELSE IF user_id \notin DOMAIN users
        THEN Return(Response(404, [error |-> "User not found. Please log in again."]))
        ELSE LET user      == users[user_id]
                 purchases == Get(user, "purchases", <<>>)
             IN  IF already_purchased(purchases, movie_id)
                 THEN Return(Response(400, [error |-> "Movie already purchased"]))
                 ELSE Save(Response(200, [message |-> "Movie purchased successfully"]),
                           [users_data EXCEPT !.users =
                               Put(users, user_id,
                                   [user EXCEPT !.purchases = Append(purchases, movie_id)])])

\* GET /my_userwatchlist?user_id=
my_userwatchlist(args, users_data) ==
    LET user_id == Get(args, "user_id", None)
        users   == Get(users_data, "users", EmptyDict)
        empty   == [favorites |-> <<>>, watchlist |-> <<>>, purchases |-> <<>>]
    IN  IF ~Truthy(user_id) THEN Return(Response(200, empty))
        ELSE IF user_id \notin DOMAIN users THEN Return(Response(200, empty))
        ELSE LET user == users[user_id]
             IN  Return(Response(200, [favorites |-> Get(user, "favorites", <<>>),
                                       watchlist |-> Get(user, "watchlist", <<>>),
                                       purchases |-> Get(user, "purchases", <<>>)]))

\* mutant: the user is looked up before img_url is checked
update_profile_lookup_first(data, users_data) ==
    LET user_id == Get(data, "user_id", None)
        img_url == Get(data, "img_url", None)
        users   == Get(users_data, "users", EmptyDict)
    IN  IF ~Truthy(user_id) THEN Return(Response(400, [error |-> "Missing user_id"]))
        ELSE IF user_id \notin DOMAIN users
        THEN Return(Response(404, [error |-> "User not found. Please log in again."]))
        ELSE IF ~Truthy(img_url) THEN Return(Response(400, [error |-> "Missing img_url"]))
        ELSE LET user == users[user_id]
             IN  Save(Response(200, [message |-> "Profile updated successfully",
                                     img_url |-> img_url]),
                      [users_data EXCEPT !.users =
                          Put(users, user_id, [user EXCEPT !.img_url = img_url])])

\* POST /update_profile
update_profile(data, users_data) ==
    LET user_id == Get(data, "user_id", None)
        img_url == Get(data, "img_url", None)
        users   == Get(users_data, "users", EmptyDict)
    IN  IF ~Truthy(user_id) THEN Return(Response(400, [error |-> "Missing user_id"]))
        ELSE IF ~Truthy(img_url) THEN Return(Response(400, [error |-> "Missing img_url"]))
        ELSE IF user_id \notin DOMAIN users
        THEN Return(Response(404, [error |-> "User not found. Please log in again."]))
        ELSE LET user == users[user_id]
             IN  Save(Response(200, [message |-> "Profile updated successfully",
                                     img_url |-> img_url]),
                      [users_data EXCEPT !.users =
                          Put(users, user_id, [user EXCEPT !.img_url = img_url])])

\* ------------------------------------------------------- request inputs
\* marks a key the request does not carry
Omitted == <<"Omitted">>

\* request.get_json() / request.args: the dict of the keys the request carries
Json(fields) == [k \in {f \in DOMAIN fields : fields[f] # Omitted} |-> fields[k]]

EmailA  == <<"a", "@", "b", ".", "c">>
EmailB  == <<"d", "@", "e", ".", "f">>
NoDot   == <<"a", "@", "b">>
NoAt    == <<"a", ".", "b">>
Secret5 == <<"s", "e", "c", "r", "e">>
Secret6 == <<"s", "e", "c", "r", "e", "t">>
Hunter6 == <<"h", "u", "n", "t", "e", "r">>
Al      == <<"a", "l">>
Png     == <<"p">>
M1      == <<"m", "1">>
M2      == <<"m", "2">>
Digit   == <<"1", "2", "3", "4", "5", "6", "7", "8", "9">>

\* the values str(uuid.uuid4()) can take in a run
Uuids   == {<<"u", Digit[i]>> : i \in 1..MaxUsers}
\* an identifier no registration ever returned
Stale   == <<"u", "0">>
Salts   == {<<"x">>}

EmailInputs    == {Omitted, EmailA, EmailB, NoDot, NoAt}
UsernameInputs == {Omitted, Al}
PasswordInputs == {<<>>, Secret5, Secret6}
LoginPasswords == {<<>>, Secret6, Hunter6}
ImgInputs      == {Omitted, Png}
UserIdInputs   == Uuids \cup {Stale, Omitted}
Movies         == {M1, M2}
MovieInputs    == Movies \cup {<<>>}

\* ---------------------------------------------------------------- state
\* `pre` is users.json as the request found it
NoRequest == [op |-> "none", data |-> EmptyDict,
              resp |-> Response(200, EmptyDict), pre |-> NoFile]

ListOps == {"toggle_favorite", "toggle_watchlist", "add_purchase"}

\* the server threads, and a thread that is between requests
Threads == {"t1", "t2"}
Idle == [pc |-> "idle", op |-> "none", data |-> EmptyDict, file |-> NoFile,
         user_id |-> None, salt |-> None]

NoThreads ==
    /\ threads = [t \in Threads |-> Idle]
    /\ acks = {}
    /\ expected = [users |-> EmptyDict]
    /\ interleaved = FALSE

Init ==
    /\ db_file \in {init_db, NoFile}
    /\ last = NoRequest
    /\ prev = NoRequest
    /\ steps = 0
    /\ NoThreads

\* One request handled from its first line to its return: the handler's result
\* `out` is computed on the document as read, and saved when the handler saves.
Handle(op, data, out) ==
    /\ steps < MaxSteps
    /\ db_file' = IF out.write THEN write_users_data(out.data) ELSE db_file
    /\ last' = [op |-> op, data |-> data, resp |-> out.resp,
                pre |-> db_file]
    /\ prev' = IF last.op \in ListOps /\ last.resp.status = 200
               THEN last ELSE NoRequest
    /\ steps' = steps + 1
    /\ UNCHANGED <<threads, acks, expected, interleaved>>

Register ==
    \E email \in EmailInputs, username \in UsernameInputs,
       password \in PasswordInputs, img_url \in ImgInputs, salt \in Salts :
        LET data   == Json([email |-> email, username |-> username,
                            password |-> password, img_url |-> img_url])
            users  == read_users_data(db_file)
            passes == register(data, users, Stale, salt).write
        IN  \* uuid4 is called once the checks have passed (line 71), and returns
            \* an identifier not handed out before
            \E user_id \in IF passes THEN Uuids \ DOMAIN users.users ELSE {Stale} :
                Handle("register", data, register(data, users, user_id, salt))

Login ==
    \E email \in EmailInputs, password \in LoginPasswords :
        LET data == Json([email |-> email, password |-> password])
        IN  Handle("login", data, login(data, read_users_data(db_file)))

Logout == Handle("logout", EmptyDict, logout)

Account ==
    \E user_id \in UserIdInputs \cup {<<>>} :
        LET args == Json([user_id |-> user_id])
        IN  Handle("account", args, account(args, read_users_data(db_file)))

ToggleFavorite ==
    \E user_id \in UserIdInputs, movie_id \in MovieInputs :
        LET data == Json([user_id |-> user_id, movie_id |-> movie_id])
        IN  Handle("toggle_favorite", data,
                   toggle_favorite(data, read_users_data(db_file)))

ToggleWatchlist ==
    \E user_id \in UserIdInputs, movie_id \in MovieInputs :
        LET data == Json([user_id |-> user_id, movie_id |-> movie_id])
        IN  Handle("toggle_watchlist", data,
                   toggle_watchlist(data, read_users_data(db_file)))

AddPurchase ==
    \E user_id \in UserIdInputs, movie_id \in MovieInputs :
        LET data == Json([user_id |-> user_id, movie_id |-> movie_id])
        IN  Handle("add_purchase", data,
                   add_purchase(data, read_users_data(db_file)))

MyUserWatchlist ==
    \E user_id \in UserIdInputs \cup {<<>>} :
        LET args == Json([user_id |-> user_id])
        IN  Handle("my_userwatchlist", args,
                   my_userwatchlist(args, read_users_data(db_file)))

UpdateProfile ==
    \E user_id \in UserIdInputs, img_url \in ImgInputs :
        LET data == Json([user_id |-> user_id, img_url |-> img_url])
        IN  Handle("update_profile", data,
                   update_profile(data, read_users_data(db_file)))

Next ==
    \/ Register
    \/ Login
    \/ Logout
    \/ Account
    \/ ToggleFavorite
    \/ ToggleWatchlist
    \/ AddPurchase
    \/ MyUserWatchlist
    \/ UpdateProfile

Spec == Init /\ [][Next]_vars

\* ------------------------------------------------- the list operations
\* A second specification for the claims about the toggle itself: the requests
\* start from a document in which two users have registered and the first has
\* already built up favorites and a watchlist.  The lists are the ones the handlers can build: every
\* sequence of distinct movies, in every order.
NoDuplicates(lst) == \A i, j \in 1..Len(lst) : lst[i] = lst[j] => i = j

BuiltLists ==
    {lst \in UNION {[1..n -> Movies] : n \in 0..Cardinality(Movies)} : NoDuplicates(lst)}

\* the document after register has run for the two users
TwoRegistered ==
    LET first  == register(Json([email |-> EmailA, username |-> Al,
                                 password |-> Secret6]),
                           read_users_data(init_db), <<"u", "1">>, <<"x">>).data
    IN  register(Json([email |-> EmailB, username |-> Al,
                       password |-> Secret6, img_url |-> Png]),
                 first, <<"u", "2">>, <<"x">>).data

InitLists ==
    /\ \E favorites \in BuiltLists, watchlist \in BuiltLists :
          db_file = write_users_data(
              [TwoRegistered EXCEPT !.users[<<"u", "1">>] =
                  [@ EXCEPT !.favorites = favorites,
                            !.watchlist = watchlist]])
    /\ last = NoRequest
    /\ prev = NoRequest
    /\ steps = 0
    /\ NoThreads

NextLists ==
    \/ ToggleFavorite
    \/ ToggleWatchlist
    \/ AddPurchase

SpecLists == InitLists /\ [][NextLists]_vars

\* ------------------------------------------------- concurrent requests
\* The development server handles requests on threads, and nothing locks
\* users.json.  A third specification splits a saving handler where another
\* thread can cut in: Begin runs it up to and including read_users_data, Finish
\* runs the rest (the in-memory change, write_users_data, the response).
Dispatch(op, data, users_data, user_id, salt) ==
    CASE op = "register"        -> register(data, users_data, user_id, salt)
      [] op = "toggle_favorite" -> toggle_favorite(data, users_data)

\* the identifiers uuid4 has already returned
Issued ==
    DOMAIN read_users_data(db_file).users
        \cup {threads[t].user_id : t \in Threads}
        \cup {a.user_id : a \in acks}

Begin(t, op, data, user_id, salt) ==
    /\ steps < MaxSteps
    /\ threads[t].pc = "idle"
    /\ threads' = [threads EXCEPT ![t] =
                      [pc |-> "loaded", op |-> op, data |-> data, file |-> db_file,
                       user_id |-> user_id, salt |-> salt]]
    /\ interleaved' = (interleaved \/ \E o \in Threads \ {t} : threads[o].pc = "loaded")
    /\ steps' = steps + 1
    /\ UNCHANGED <<db_file, last, prev, acks, expected>>

BeginRegister(t) ==
    \E email \in {EmailA, EmailB}, user_id \in Uuids \ Issued, salt \in Salts :
        Begin(t, "register",
              Json([email |-> email, username |-> Al, password |-> Secret6]),
              user_id, salt)

BeginToggleFavorite(t) ==
    \E user_id \in Uuids, movie_id \in Movies :
        Begin(t, "toggle_favorite",
              Json([user_id |-> user_id, movie_id |-> movie_id]), None, None)

Finish(t) ==
    LET my     == threads[t]
        out    == Dispatch(my.op, my.data, read_users_data(my.file), my.user_id, my.salt)
        serial == Dispatch(my.op, my.data, expected, my.user_id, my.salt)
    IN  /\ my.pc = "loaded"
        /\ db_file' = IF out.write THEN write_users_data(out.data) ELSE db_file
        /\ last' = [op |-> my.op, data |-> my.data, resp |-> out.resp, pre |-> my.file]
        /\ acks' = IF out.write
                   THEN acks \cup {[op |-> my.op, data |-> my.data, resp |-> out.resp,
                                    user_id |-> my.user_id]}
                   ELSE acks
        /\ expected' = IF serial.write THEN serial.data ELSE expected
        /\ threads' = [threads EXCEPT ![t] = Idle]
        /\ UNCHANGED <<prev, steps, interleaved>>

NextConc ==
    \E t \in Threads :
        \/ BeginRegister(t)
        \/ BeginToggleFavorite(t)
        \/ Finish(t)

InitConc ==
    /\ db_file = init_db
    /\ last = NoRequest
    /\ prev = NoRequest
    /\ steps = 0
    /\ NoThreads

SpecConc == InitConc /\ [][NextConc]_vars

\* ------------------------------------------------------ error taxonomy
\* the classes of spec section 7, told apart by status and message
ErrorOf(resp) == Get(resp.body, "error", "")

ValidationError(resp) ==
    /\ resp.status = 400
    /\ ErrorOf(resp) \in {"Missing required fields", "Invalid email format",
                          "Password must be at least 6 characters",
                          "Missing movie_id", "Missing user_id", "Missing img_url"}

ConflictError(resp) ==
    /\ resp.status = 400
    /\ ErrorOf(resp) \in {"Email already registered", "Movie already purchased"}

AuthError(resp) == resp.status = 401 /\ ErrorOf(resp) = "Invalid email or password"

NotFoundError(resp) ==
    resp.status = 404 /\ ErrorOf(resp) = "User not found. Please log in again."

Success(resp) == resp.status \in {200, 201}

\* ------------------------------------------------------ reading a state
\* the records now stored, and those the last request found
Users    == read_users_data(db_file).users
PreUsers == read_users_data(last.pre).users

\* a field of the last request (None when the request does not carry it)
Field(key) == Get(last.data, key, None)

EmailOnFile(users, email) == \E uid \in DOMAIN users : users[uid].email = email

\* ---------------------------------------------------------------- claims

\* C2 (as stated): a register request whose email is already on file fails with
\* ConflictError and creates no record, whatever username and password it carries.
C2_Original ==
    (last.op = "register" /\ EmailOnFile(PreUsers, Field("email")))
        => (ConflictError(last.resp) /\ db_file = last.pre)

\* C2 (amended): a register request whose email is already on file creates no
\* record; it fails with ConflictError for every non-empty username and password
\* (a too short password included), and with ValidationError "Missing required
\* fields" when the username or the password is missing.
C2_RegisteredEmailRejected ==
    (last.op = "register" /\ EmailOnFile(PreUsers, Field("email")))
        => /\ db_file = last.pre
           /\ IF Truthy(Field("username")) /\ Truthy(Field("password"))
              THEN ConflictError(last.resp)
                   /\ ErrorOf(last.resp) = "Email already registered"
              ELSE ValidationError(last.resp)
                   /\ ErrorOf(last.resp) = "Missing required fields"

C2_Witness ==
    /\ last.op = "register"
    /\ EmailOnFile(PreUsers, Field("email"))
    /\ Field("password") = Secret6
    /\ Field("img_url") = Png
    /\ ConflictError(last.resp)

\* C3: when requests run one at a time, no two stored records have the same email.
C3_EmailsUnique ==
    \A u1, u2 \in DOMAIN Users :
        Users[u1].email = Users[u2].email => u1 = u2

C3_Witness ==
    /\ Cardinality(DOMAIN Users) = 2
    /\ last.op = "register"
    /\ Success(last.resp)

\* what the claim calls a validation failure of a register request
RegisterInvalid(data) ==
    LET email    == Get(data, "email", None)
        username == Get(data, "username", None)
        password == Get(data, "password", None)
    IN  \/ ~Truthy(email) \/ ~Truthy(username) \/ ~Truthy(password)
        \/ ~In("@", email) \/ ~In(".", email)
        \/ Len(password) < MinPasswordLen

RegisterMissing(data) ==
    \/ ~Truthy(Get(data, "email", None))
    \/ ~Truthy(Get(data, "username", None))
    \/ ~Truthy(Get(data, "password", None))

\* C4 (as stated): register fails with ValidationError, writing nothing, exactly
\* when a field is missing, the email is malformed or the password is shorter
\* than 6, also when the email is already registered.
C4_Original ==
    last.op = "register"
        => /\ ValidationError(last.resp) <=> RegisterInvalid(last.data)
           /\ ValidationError(last.resp) => db_file = last.pre

\* C4 (amended): register fails with ValidationError exactly when a field is
\* missing, or all three are present, the email is not on file, and the email
\* lacks "@" or lacks "." or the password is shorter than 6.  With all three
\* present and the email on file it fails with ConflictError even if the
\* password is too short.  Only a request failing none of these is stored, and
\* every failure writes nothing.
C4_RegisterChecksInOrder ==
    last.op = "register"
        => LET registered == EmailOnFile(PreUsers, Field("email"))
           IN  /\ ValidationError(last.resp)
                    <=> \/ RegisterMissing(last.data)
                        \/ ~registered /\ RegisterInvalid(last.data)
               /\ ConflictError(last.resp)
                    <=> ~RegisterMissing(last.data) /\ registered
               /\ Success(last.resp)
                    <=> ~registered /\ ~RegisterInvalid(last.data)
               /\ ~Success(last.resp) => db_file = last.pre
               /\ Success(last.resp) =>
                    /\ last.resp.body.user_id \in DOMAIN Users \ DOMAIN PreUsers
                    /\ Users[last.resp.body.user_id].email = Field("email")

C4_Witness ==
    /\ last.op = "register"
    /\ EmailOnFile(PreUsers, Field("email"))
    /\ Field("password") = Secret5
    /\ ConflictError(last.resp)

\* an email no request of the model ever registers
UnregisteredEmail == <<"n", "@", "o", ".", "p">>

\* the password is not the one the record was registered with
WrongPassword(user, password) ==
    user.password # generate_password_hash(password, user.password.salt)

\* C5: a login (email and password both supplied) with an unregistered email and
\* one with a registered email and a wrong password get the identical response,
\* status 401 with the message "Invalid email or password"; a login with a
\* registered email and a wrong password never succeeds, and for every password
\* its response is the one the same request gets for an unregistered email.
C5_LoginFailuresIdentical ==
    last.op = "login"
        => LET email    == Field("email")
               password == Field("password")
               found    == {uid \in DOMAIN PreUsers : PreUsers[uid].email = email}
               wrong    == \E uid \in found : WrongPassword(PreUsers[uid], password)
               other    == login(Json([email |-> UnregisteredEmail,
                                       password |-> Field("password")]),
                                 read_users_data(last.pre)).resp
           IN  /\ db_file = last.pre
               /\ (Truthy(email) /\ Truthy(password) /\ (found = {} \/ wrong))
                    => /\ last.resp.status = 401
                       /\ last.resp.body = [error |-> "Invalid email or password"]
               /\ wrong => /\ ~Success(last.resp)
                           /\ last.resp.status = other.status
                           /\ ErrorOf(last.resp) = ErrorOf(other)
                           /\ DOMAIN last.resp.body = DOMAIN other.body

C5_Witness ==
    /\ last.op = "login"
    /\ EmailOnFile(PreUsers, Field("email"))
    /\ Field("password") = Hunter6
    /\ AuthError(last.resp)

Mutators == {"toggle_favorite", "toggle_watchlist", "add_purchase", "update_profile"}

RequiredFields(op) ==
    IF op = "update_profile" THEN {"user_id", "img_url"} ELSE {"user_id", "movie_id"}

\* C7: toggleFavorite, toggleWatchlist, addPurchase and updateProfile fail with
\* ValidationError when a required field is missing (whether or not the user_id
\* resolves: the check comes before the lookup) and with NotFoundError when all
\* fields are supplied but user_id matches no record; both leave users.json as
\* it was.
C7_MissingThenNotFound ==
    last.op \in Mutators
        => LET missing == \E k \in RequiredFields(last.op) : ~Truthy(Field(k))
           IN  /\ missing => ValidationError(last.resp) /\ db_file = last.pre
               /\ (~missing /\ Field("user_id") \notin DOMAIN PreUsers)
                    => NotFoundError(last.resp) /\ db_file = last.pre

C7_Witness ==
    /\ last.op = "update_profile"
    /\ Field("user_id") = Stale
    /\ ~Truthy(Field("img_url"))
    /\ DOMAIN PreUsers # {}
    /\ ValidationError(last.resp)

EmptyLists == [favorites |-> <<>>, watchlist |-> <<>>, purchases |-> <<>>]

\* C8: getAccount and getUserLists always answer 200 and never change
\* users.json; for a missing user_id or one that matches no record getAccount
\* returns the Guest view (isLoggedIn false, empty img_url, three empty lists)
\* and getUserLists three empty lists.
C8_ReadsNeverFail ==
    last.op \in {"account", "my_userwatchlist"}
        => /\ last.resp.status = 200
           /\ "error" \notin DOMAIN last.resp.body
           /\ db_file = last.pre
           /\ (~Truthy(Field("user_id")) \/ Field("user_id") \notin DOMAIN PreUsers)
                => /\ [k \in DOMAIN EmptyLists |-> last.resp.body[k]] = EmptyLists
                   /\ last.op = "account"
                        => /\ last.resp.body.isLoggedIn = FALSE
                           /\ last.resp.body.img_url = <<>>
                           /\ DOMAIN last.resp.body =
                                DOMAIN EmptyLists \cup {"username", "img_url", "isLoggedIn"}
                   /\ last.op = "my_userwatchlist"
                        => DOMAIN last.resp.body = DOMAIN EmptyLists

C8_Witness ==
    /\ last.op = "account"
    /\ Field("user_id") = Stale
    /\ \E uid \in DOMAIN PreUsers : PreUsers[uid].purchases # <<>>
    /\ last.resp.body.isLoggedIn = FALSE

\* the one field each mutating operation may change
TargetField(op) ==
    CASE op = "toggle_favorite"  -> "favorites"
      [] op = "toggle_watchlist" -> "watchlist"
      [] op = "add_purchase"     -> "purchases"
      [] op = "update_profile"   -> "img_url"

\* C10: no request removes a record or changes its id, email, username or
\* password, and every record is stored under its id; a successful
\* toggleFavorite, toggleWatchlist, addPurchase or updateProfile changes only
\* its one field of its one record; a successful register only adds one record;
\* every other request leaves users.json as it was.
C10_Frame ==
    /\ \A uid \in DOMAIN Users : Users[uid].id = uid
    /\ \A uid \in DOMAIN PreUsers :
        /\ uid \in DOMAIN Users
        /\ Users[uid].id = PreUsers[uid].id
        /\ Users[uid].email = PreUsers[uid].email
        /\ Users[uid].username = PreUsers[uid].username
        /\ Users[uid].password = PreUsers[uid].password
    /\ (last.op \in Mutators /\ Success(last.resp))
        => LET uid == Field("user_id")
               f   == TargetField(last.op)
           IN  /\ DOMAIN Users = DOMAIN PreUsers
               /\ \A other \in DOMAIN Users \ {uid} : Users[other] = PreUsers[other]
               /\ \A k \in DOMAIN PreUsers[uid] \ {f} : Users[uid][k] = PreUsers[uid][k]
               /\ DOMAIN Users[uid] = DOMAIN PreUsers[uid]
    /\ (last.op = "register" /\ Success(last.resp))
        => /\ DOMAIN Users = DOMAIN PreUsers \cup {last.resp.body.user_id}
           /\ \A other \in DOMAIN PreUsers : Users[other] = PreUsers[other]
    /\ (last.op # "none" /\ (last.op \notin Mutators \cup {"register"} \/ ~Success(last.resp)))
        => db_file = last.pre

C10_Witness ==
    /\ last.op = "update_profile"
    /\ Success(last.resp)
    /\ Cardinality(DOMAIN Users) = 2
    /\ Users[Field("user_id")].img_url # PreUsers[Field("user_id")].img_url

Toggles == {"toggle_favorite", "toggle_watchlist"}

\* the last two requests were the same successful toggle, one right after the other
ToggledTwice ==
    /\ prev.op \in Toggles
    /\ last.op = prev.op
    /\ last.data = prev.data
    /\ Success(prev.resp)
    /\ Success(last.resp)

\* the toggled list before the first of the two calls, and after the second
ListBefore == read_users_data(prev.pre).users[Field("user_id")][TargetField(last.op)]
ListAfter  == Users[Field("user_id")][TargetField(last.op)]

Elements(lst) == {lst[i] : i \in 1..Len(lst)}

Without(lst, x) == LET Other(y) == y # x IN SelectSeq(lst, Other)

LostRegistration ==
    \E a \in acks :
        /\ a.op = "register"
        /\ a.resp.status = 201
        /\ a.resp.body.user_id \notin DOMAIN Users

\* an answered "added to favorites", never toggled again, whose movie is not in
\* the user's favorites
LostFavorite ==
    \E a \in acks :
        /\ a.op = "toggle_favorite"
        /\ a.resp.body.message = "Movie added to favorites"
        /\ \A b \in acks \ {a} : b.op = a.op => b.data # a.data
        /\ a.data.user_id \in DOMAIN Users
        /\ ~In(a.data.movie_id, Users[a.data.user_id].favorites)

C9_WitnessRegister ==
    /\ interleaved
    /\ \A t \in Threads : threads[t].pc = "idle"
    /\ LostRegistration
    /\ Cardinality({a \in acks : a.op = "register"}) = 2
    /\ Cardinality(DOMAIN Users) = 1

====
